---- MODULE Spec2Model ----
(***************************************************************************)
(* ProvusFormatter: the TEM / PEM / MCG header parsers of                  *)
(* src/core/file_processor.py and src/core/mcg_parser.py, the waveform and *)
(* sampling CSV writers, and the batch driver AnalysisPage.process_files   *)
(* of src/gui/pages/analysis.py.                                           *)
(*                                                                         *)
(* Representation.                                                         *)
(*  - A Python str that the code inspects character by character           *)
(*    (base_frequency, duty_cycle, file names, CSV lines) is a sequence of *)
(*    atoms; an atom is one character ("5", ".", ",", "/", "_") or a       *)
(*    literal chunk of the source that holds none of the characters the    *)
(*    code splits or searches on ("Square", "Waveform Name", ".csv").      *)
(*  - A Python float is a fixed-point integer counting 1/Scale units       *)
(*    (Scale = 10^4), so 5.0 is 50000 and the tolerance 0.001 is 10.       *)
(*  - None is NoneS for a string field and NoChannels for num_channels.    *)
(*  - A directory is a function from file name to file content.            *)
(***************************************************************************)
EXTENDS Integers, Sequences, FiniteSets, TLC

VARIABLES
    files,      \* process_files: self.file_data['tem_files'], the batch
    idx,        \* process_files: position of the for loop (1-based)
    pc,         \* control position of the driver
    results,    \* process_files: self.results, file index -> entry
    wfDir,      \* <root>/Provus_Options/Waveforms
    spDir,      \* <root>/Provus_Options/Channel_Sampling_Schemes
    rec,        \* the HeaderRecord in hand (header_data)
    wfRet,      \* value returned by the last _generate_waveform_csv call
    spRet,      \* value returned by the last _generate_sampling_csv call
    log,        \* history: one entry per call made, in order
    mcg,        \* content of the MCG file given to parse_mcg_file
    table,      \* self.table: the rows of the results table
    rewritten,  \* write_headers: file index -> the lines written back to it
    project,    \* the project (.ppf) file in the root directory
    status      \* self.status_label: its text

vars == <<files, idx, pc, results, wfDir, spDir, rec, wfRet, spRet, log, mcg,
          table, rewritten, project, status>>

-----------------------------------------------------------------------------
(* Bounds of the model *)

MaxDirectives == 4
MaxCalls == 2
MaxFiles == 3
MaxPemLines == 3
MaxChannels == 20

-----------------------------------------------------------------------------
(* Numbers *)

Scale == 10 * 1000

Abs(x) == IF x < 0 THEN 0 - x ELSE x

\* x / 1000.0 on the fixed-point grid, rounded to the nearest grid point
Div1000(x) ==
    LET a == Abs(x)
        q == (a + 500) \div 1000
    IN  IF x < 0 THEN 0 - q ELSE q

\* f"{x:.3f}": the value rounded to thousandths, as a count of thousandths
Fmt3(x) ==
    LET a == Abs(x)
        q == (a + (Scale \div 2000)) \div (Scale \div 1000)
    IN  IF x < 0 THEN 0 - q ELSE q

-----------------------------------------------------------------------------
(* Strings as sequences of atoms *)

NoneS == <<"<None>">>
NoChannels == 0 - 1

Digits == {"0", "1", "2", "3", "4", "5", "6", "7", "8", "9"}

DigitVal(c) ==
    CASE c = "0" -> 0 [] c = "1" -> 1 [] c = "2" -> 2 [] c = "3" -> 3
      [] c = "4" -> 4 [] c = "5" -> 5 [] c = "6" -> 6 [] c = "7" -> 7
      [] c = "8" -> 8 [] c = "9" -> 9

DigitChar(d) ==
    CASE d = 0 -> "0" [] d = 1 -> "1" [] d = 2 -> "2" [] d = 3 -> "3"
      [] d = 4 -> "4" [] d = 5 -> "5" [] d = 6 -> "6" [] d = 7 -> "7"
      [] d = 8 -> "8" [] d = 9 -> "9"

Has(s, c) == \E i \in 1..Len(s) : s[i] = c

Count(s, c) == Cardinality({i \in 1..Len(s) : s[i] = c})

\* index of the first c in s, or 0
RECURSIVE FirstIdx(_, _, _)
FirstIdx(s, c, i) ==
    IF i > Len(s) THEN 0
    ELSE IF s[i] = c THEN i
    ELSE FirstIdx(s, c, i + 1)

\* s.split(c)
RECURSIVE Split(_, _)
Split(s, c) ==
    LET i == FirstIdx(s, c, 1)
    IN  IF i = 0 THEN <<s>>
        ELSE <<SubSeq(s, 1, i - 1)>> \o Split(SubSeq(s, i + 1, Len(s)), c)

\* sub in s, for a sub of atoms
Contains(s, sub) ==
    \E i \in 1..(Len(s) - Len(sub) + 1) : SubSeq(s, i, i + Len(sub) - 1) = sub

\* float(s) succeeds: digits with at most one ".", at least one digit
IsFloat(s) ==
    /\ s # NoneS
    /\ \A i \in 1..Len(s) : s[i] \in Digits \cup {"."}
    /\ Count(s, ".") <= 1
    /\ \E i \in 1..Len(s) : s[i] \in Digits

RECURSIVE DigitsVal(_)
DigitsVal(s) ==
    IF Len(s) = 0 THEN 0
    ELSE DigitsVal(SubSeq(s, 1, Len(s) - 1)) * 10 + DigitVal(s[Len(s)])

\* the first four decimals of a fraction string, as a count of 1/Scale
FracVal(s) ==
    LET d(i) == IF i <= Len(s) THEN DigitVal(s[i]) ELSE 0
    IN  d(1) * 1000 + d(2) * 100 + d(3) * 10 + d(4)

\* float(s) for an s with IsFloat(s), on the fixed-point grid
ToFloat(s) ==
    LET p == FirstIdx(s, ".", 1)
    IN  IF p = 0 THEN DigitsVal(s) * Scale
        ELSE DigitsVal(SubSeq(s, 1, p - 1)) * Scale
             + FracVal(SubSeq(s, p + 1, Len(s)))

RECURSIVE NatStr(_)
NatStr(n) ==
    IF n < 10 THEN <<DigitChar(n)>>
    ELSE NatStr(n \div 10) \o <<DigitChar(n % 10)>>

\* f"{x:.3f}" as text, for x >= 0
Fmt3Str(x) ==
    LET q == Fmt3(x)
        f == q % 1000
    IN  NatStr(q \div 1000)
        \o <<".", DigitChar(f \div 100), DigitChar((f \div 10) % 10),
             DigitChar(f % 10)>>

\* f"{x:.0f}" as text, for x >= 0: round half to even
Fmt0Str(x) ==
    LET w == x \div Scale
        r == x % Scale
        h == Scale \div 2
        n == IF r > h \/ (r = h /\ w % 2 = 1) THEN w + 1 ELSE w
    IN  NatStr(n)

\* s.strip(chars)
RECURSIVE LStrip(_, _)
LStrip(s, chars) ==
    IF Len(s) > 0 /\ s[1] \in chars THEN LStrip(Tail(s), chars) ELSE s

RECURSIVE RStrip(_, _)
RStrip(s, chars) ==
    IF Len(s) > 0 /\ s[Len(s)] \in chars
    THEN RStrip(SubSeq(s, 1, Len(s) - 1), chars)
    ELSE s

Strip(s, chars) == RStrip(LStrip(s, chars), chars)

\* f"{s}" for a string field that may be None
Show(s) == IF s = NoneS THEN <<"None">> ELSE s

\* "not s": None and the empty string are both falsy
Falsy(s) == s = NoneS \/ s = <<>>

-----------------------------------------------------------------------------
(* TEM header lines.                                                       *)
(* A line is [k, u, toks, kv]:                                             *)
(*   k    "TIMESSTART" | "TIMESEND" | "TIMES" | "TIMESWIDTH" for a line    *)
(*        holding that directive marker, "KV" for a line of key=value      *)
(*        tokens, "BLANK" for an empty line;                               *)
(*   u    the unit suffix written after the marker: "ms", "us" or ""       *)
(*   toks the comma-separated items after "=", each [t, v] with t = "num"  *)
(*        (float() accepts it, value v), "bad" (float() raises) or         *)
(*        "empty" (blank item, filtered by "if x.strip()");                *)
(*   kv   the whitespace-separated parts, each already split at its first  *)
(*        separator into [key, val].                                       *)
(***************************************************************************)

Num(v) == [t |-> "num", v |-> v]
BadTok == [t |-> "bad", v |-> 0]
EmptyTok == [t |-> "empty", v |-> 0]

DirLine(k, u, toks) == [k |-> k, u |-> u, toks |-> toks, kv |-> <<>>]
KvLine(kv) == [k |-> "KV", u |-> "", toks |-> <<>>, kv |-> kv]
Part(key, val) == [key |-> key, val |-> val]

\* [float(x.strip()) for x in values_str.split(',') if x.strip()] raises
Raises(toks) == \E i \in 1..Len(toks) : toks[i].t = "bad"

IsItem(tok) == tok.t # "empty"

\* the list that comprehension builds when it does not raise
Values(toks) ==
    LET kept == SelectSeq(toks, IsItem)
    IN  [i \in 1..Len(kept) |-> kept[i].v]

\* key.upper()
Upper(key) ==
    CASE key = "bfreq" -> "BFREQ"
      [] key = "duty" -> "DUTY"
      [] key = "units" -> "UNITS"
      [] key = "txwaveform" -> "TXWAVEFORM"
      [] OTHER -> key

EmptyResults ==
    [ base_frequency |-> NoneS,
      units          |-> NoneS,
      duty_cycle     |-> NoneS,
      tx_waveform    |-> <<"Undefined">>,
      system_info    |-> NoneS,
      survey_config  |-> NoneS,
      data_type      |-> NoneS,
      offtime        |-> NoneS,
      times_start    |-> <<>>,
      times_end      |-> <<>>,
      num_channels   |-> NoChannels,
      header_lines   |-> <<>> ]

InitScan ==
    [ results |-> EmptyResults, times |-> <<>>, times_width |-> <<>>,
      current_unit |-> "ms" ]

\* the if / elif chain over the directive markers, for one line
ScanDirective(st, line) ==
    CASE line.k = "TIMESSTART" ->
            IF Raises(line.toks) THEN st
            ELSE [st EXCEPT !.results.times_start = Values(line.toks)]
      [] line.k = "TIMESEND" ->
            IF Raises(line.toks) THEN st
            ELSE [st EXCEPT !.results.times_end = Values(line.toks),
                            !.results.num_channels = Len(Values(line.toks))]
      [] line.k = "TIMES" /\ line.u \in {"ms", "us"} ->
            LET st1 == IF line.u = "us"
                       THEN [st EXCEPT !.current_unit = "us"] ELSE st
            IN  IF Raises(line.toks) THEN st1
                ELSE [st1 EXCEPT !.times = Values(line.toks)]
      [] line.k = "TIMESWIDTH" /\ line.u \in {"ms", "us"} ->
            IF Raises(line.toks) THEN st
            ELSE [st EXCEPT !.times_width = Values(line.toks)]
      [] OTHER -> st

\* one key=value part of a line
ScanPart(r, part) ==
    LET value == Strip(part.val, {",", "\"", " ", "&"})
        key == Upper(part.key)
    IN  CASE key \in {"BFREQ", "BASEFREQ", "BASEFREQUENCY"} ->
                [r EXCEPT !.base_frequency =
                    IF IsFloat(value) THEN Fmt3Str(ToFloat(value)) ELSE value]
          [] key = "UNITS" ->
                [r EXCEPT !.units = Strip(value, {"(", ")"})]
          [] key = "TXWAVEFORM" ->
                [r EXCEPT !.tx_waveform = value]
          [] key \in {"DUTYCYCLE", "DUTY"} ->
                [r EXCEPT !.duty_cycle =
                    IF IsFloat(value) THEN Fmt0Str(ToFloat(value)) ELSE value]
          [] key \in {"INSTRUMENT", "SYSTEM", "PRIMARYREMOVED"} ->
                [r EXCEPT !.system_info = value]
          [] key \in {"CONFIG", "CONFIGURATION"} ->
                [r EXCEPT !.survey_config = value]
          [] key = "DATATYPE" -> [r EXCEPT !.data_type = value]
          [] key = "OFFTIME" -> [r EXCEPT !.offtime = value]
          [] OTHER -> r

RECURSIVE ScanParts(_, _)
ScanParts(r, parts) ==
    IF Len(parts) = 0 THEN r
    ELSE ScanParts(ScanPart(r, Head(parts)), Tail(parts))

\* the body of "for line in f" for one line
ScanLine(st, line) ==
    IF line.k = "BLANK" THEN st
    ELSE
        LET st1 == [st EXCEPT !.results.header_lines = Append(@, line)]
            st2 == ScanDirective(st1, line)
        IN  [st2 EXCEPT !.results = ScanParts(@, line.kv)]

RECURSIVE ScanLines(_, _)
ScanLines(st, lines) ==
    IF Len(lines) = 0 THEN st
    ELSE ScanLines(ScanLine(st, Head(lines)), Tail(lines))

\* PostProcessTimes without the microsecond conversion
PostProcessTimes_NoConversion(st) ==
    IF Len(st.times) > 0 /\ Len(st.times_width) > 0
       /\ Len(st.times) = Len(st.times_width)
    THEN [st.results EXCEPT
            !.times_start = [i \in 1..Len(st.times) |->
                                st.times[i] - st.times_width[i]],
            !.times_end = [i \in 1..Len(st.times) |->
                              st.times[i] + st.times_width[i]],
            !.num_channels = Len(st.times)]
    ELSE st.results

\* "Post-process times if using TIMES/TIMESWIDTH format"
PostProcessTimes(st) ==
    IF Len(st.times) > 0 /\ Len(st.times_width) > 0
       /\ Len(st.times) = Len(st.times_width)
    THEN
        LET us == st.current_unit = "us"
            t == [i \in 1..Len(st.times) |->
                    IF us THEN Div1000(st.times[i]) ELSE st.times[i]]
            w == [i \in 1..Len(st.times) |->
                    IF us THEN Div1000(st.times_width[i])
                    ELSE st.times_width[i]]
        IN  [st.results EXCEPT
                !.times_start = [i \in 1..Len(t) |-> t[i] - w[i]],
                !.times_end = [i \in 1..Len(t) |-> t[i] + w[i]],
                !.num_channels = Len(t)]
    ELSE st.results

\* "Post-process duty cycle based on rules"
PostProcessDuty(r) ==
    IF Falsy(r.duty_cycle)
    THEN [r EXCEPT !.duty_cycle =
            IF r.tx_waveform = <<"UTEM">> THEN <<"1", "0", "0">>
            ELSE <<"Undefined">>]
    ELSE r

None == [none |-> TRUE]

\* parse_file_headers(file_path): the HeaderRecord, or None when reading
\* the file raises (the outer except returns None)
parse_file_headers(file) ==
    IF ~file.readable THEN None
    ELSE PostProcessDuty(PostProcessTimes(ScanLines(InitScan, file.lines)))

-----------------------------------------------------------------------------
(* CSV text.  A waveform file is the sequence of its lines, each line a    *)
(* string; csv.writer ends every row with its line terminator, which the   *)
(* text-mode reader of the compare turns back into one line per row.       *)

RECURSIVE DoubleQuotes(_)
DoubleQuotes(s) ==
    IF Len(s) = 0 THEN <<>>
    ELSE (IF Head(s) = "\"" THEN <<"\"", "\"">> ELSE <<Head(s)>>)
         \o DoubleQuotes(Tail(s))

\* csv.writer, QUOTE_MINIMAL: a field holding the delimiter or the quote
\* character is written between quotes
CsvField(f) ==
    IF Has(f, ",") \/ Has(f, "\"")
    THEN <<"\"">> \o DoubleQuotes(f) \o <<"\"">>
    ELSE f

RECURSIVE CsvRow(_)
CsvRow(fields) ==
    IF Len(fields) = 0 THEN <<>>
    ELSE IF Len(fields) = 1 THEN CsvField(fields[1])
    ELSE CsvField(Head(fields)) \o <<",">> \o CsvRow(Tail(fields))

\* writer.writerows(content)
CsvText(content) == [i \in 1..Len(content) |-> CsvRow(content[i])]

\* [line.strip().split(',') for line in f]
ReadRows(text) == [i \in 1..Len(text) |-> Split(Strip(text[i], {" "}), ",")]

-----------------------------------------------------------------------------
(* _generate_waveform_csv *)

UtemShape(waveform_name, base_freq) ==
    << <<<<"Waveform Name">>, waveform_name>>,
       <<<<"BaseFrequency">>, base_freq>>,
       <<<<"Waveform Zero Time">>, <<"0.0000">>>>,
       <<<<"Scaled Time">>, <<"Current">>>>,
       <<<<"0.0000">>, <<"-1.000000">>>>,
       <<<<"0.0001">>, <<"1.000000">>>>,
       <<<<"0.5000">>, <<"1.000000">>>> >>

HalfDutyShape(waveform_name, base_freq) ==
    << <<<<"Waveform Name">>, waveform_name>>,
       <<<<"BaseFrequency">>, base_freq>>,
       <<<<"Waveform Zero Time">>, <<"0.2501">>>>,
       <<<<"Scaled Time">>, <<"Current">>>>,
       <<<<"0.0000">>, <<"0.000000">>>>,
       <<<<"0.0001">>, <<"1.000000">>>>,
       <<<<"0.2500">>, <<"1.000000">>>>,
       <<<<"0.2501">>, <<"0.000000">>>>,
       <<<<"0.5000">>, <<"0.000000">>>> >>

\* DutyPrefix ignoring the duty cycle
DutyPrefix_AlwaysSquare(duty_cycle) == <<"Square", "_">>

\* "Normalize duty cycle value": the name prefix chosen from duty_cycle
DutyPrefix(duty_cycle) ==
    LET d == Strip(duty_cycle, {" "})
    IN  IF IsFloat(d) /\ Abs(ToFloat(d) - 50 * Scale) < Scale \div 1000
        THEN <<"5", "0", "_", "Square", "_">>
        ELSE <<"Square", "_">>

\* tx_waveform values for which a shape exists
Supported(tx_waveform) == tx_waveform \in {<<"UTEM">>, <<"Undefined">>}

\* the name and the rows chosen by the if / elif chain, for a supported
\* tx_waveform
WaveformPlan(base_freq, tx_waveform, duty_cycle) ==
    LET name == DutyPrefix(duty_cycle) \o Show(base_freq)
    IN  IF tx_waveform = <<"UTEM">>
        THEN [ filename |-> <<"UTEM", "_">> \o base_freq \o <<".csv">>,
               content |-> UtemShape(<<"UTEM", "_">> \o base_freq, base_freq) ]
        ELSE [ filename |-> name \o <<".csv">>,
               content |-> IF Contains(name, <<"5", "0", "_", "Square">>)
                           THEN HalfDutyShape(name, base_freq)
                           ELSE UtemShape(name, base_freq) ]

\* open(output_dir / filename, ...) raises: a "/" in the name makes the
\* path point into a directory that does not exist
OpenFails(filename) == Has(filename, "/")

\* the existing-file compare: TRUE when the rewrite is skipped
SameContent(dir, plan) ==
    /\ plan.filename \in DOMAIN dir
    /\ ReadRows(dir[plan.filename]) = plan.content

\* _generate_waveform_csv(header_data, output_dir) on directory dir:
\*   ret     the returned file name, NoneS for None
\*   raised  TRUE when an exception leaves the method
\*   dir     the directory afterwards
\*   wrote   TRUE when the target was opened for writing and written
_generate_waveform_csv(header_data, dir) ==
    LET base_freq == header_data.base_frequency
        tx == header_data.tx_waveform
        duty == header_data.duty_cycle
        quiet == [ret |-> NoneS, raised |-> FALSE, dir |-> dir, wrote |-> FALSE]
    IN  IF duty = NoneS THEN [quiet EXCEPT !.raised = TRUE]
        ELSE IF Falsy(base_freq) THEN quiet
        ELSE IF ~Supported(tx) THEN quiet
        ELSE
            LET plan == WaveformPlan(base_freq, tx, duty)
            IN  IF OpenFails(plan.filename) THEN [quiet EXCEPT !.raised = TRUE]
                ELSE IF SameContent(dir, plan)
                THEN [quiet EXCEPT !.ret = plan.filename]
                ELSE [ ret |-> plan.filename, raised |-> FALSE,
                       dir |-> (plan.filename :> CsvText(plan.content)) @@ dir,
                       wrote |-> TRUE ]

-----------------------------------------------------------------------------
(* _generate_sampling_csv *)

dbdt_units ==
    { <<"uV">>, <<"uV/A">>, <<"uV/Am2">>, <<"uV/m2">>,
      <<"nV">>, <<"nV/A">>, <<"nV/Am2">>, <<"nV/m2">>,
      <<"pV">>, <<"pV/A">>, <<"pV/Am2">>, <<"pV/m2">>,
      <<"nT/As">>, <<"nT/Asm2">>,
      <<"pT/s">>, <<"pT/As">>, <<"pT/Asm2">> }

b_field_units ==
    { <<"nT">>, <<"nT/A">>, <<"nT/Am2">>, <<"nT/m2">>,
      <<"pT">>, <<"pT/A">>, <<"pT/Am2">>, <<"pT/m2">>,
      <<"fT">>, <<"fT/A">>, <<"fT/Am2">>, <<"fT/m2">>,
      <<"ppm">>, <<"ppmHp">>, <<"ppt">>, <<"pptHp">>,
      <<"%Ht">>, <<"%">>, <<"ppmHz">>, <<"pptHz">>,
      <<"ppmHx">>, <<"pptHx">>, <<"ppmHt">>, <<"pptHt">>,
      <<"Ohm-m">>, <<"S/m">> }

\* _determine_field_type taking an unknown unit for a rate-of-change unit
_determine_field_type_UnknownIsRate(units) ==
    IF units \in b_field_units THEN "b" ELSE "dbdt"

_determine_field_type(units) ==
    IF units \in dbdt_units THEN "dbdt"
    ELSE IF units \in b_field_units THEN "b"
    ELSE "b"

\* generate_channel_colors keeping every component within [0, 1]
generate_channel_colors_Clamped(num_channels) ==
    LET Clamp(x) == IF x < 0 THEN 0 ELSE IF x > 1000000 THEN 1000000 ELSE x
    IN  [i \in 1..num_channels |->
            <<Clamp(250000 + (i - 1) * 50000), Clamp(750000 - (i - 1) * 50000),
              500000>>]

\* generate_channel_colors(num_channels): (red, green, blue) per channel,
\* each in millionths, as the 6-decimal format prints them
generate_channel_colors(num_channels) ==
    [i \in 1..num_channels |->
        <<250000 + (i - 1) * 50000, 750000 - (i - 1) * 50000, 500000>>]

\* SniffUs looking for the TIMES(us) literal alone
SniffUs_TimesOnly(header_lines) ==
    \E i \in 1..Len(header_lines) :
        header_lines[i].k = "TIMES" /\ header_lines[i].u = "us"

\* the second unit sniff over the raw header lines
SniffUs(header_lines) ==
    \E i \in 1..Len(header_lines) :
        /\ header_lines[i].k \in {"TIMESSTART", "TIMES", "TIMESEND"}
        /\ header_lines[i].u = "us"

\* Path(waveform_name).stem
Stem(name) ==
    IF Len(name) > 0 /\ name[Len(name)] = ".csv"
    THEN SubSeq(name, 1, Len(name) - 1)
    ELSE name

\* "Format base name with consistent decimal places": [ok, name]; ok is
\* FALSE when float() or the index raises
FormatBaseName(base_name) ==
    IF Has(base_name, "UTEM") THEN [ok |-> TRUE, name |-> base_name]
    ELSE
        LET parts == Split(base_name, "_")
            at == IF parts[1] = <<"5", "0">> THEN 3 ELSE 2
            prefix == IF parts[1] = <<"5", "0">>
                      THEN <<"5", "0", "_", "Square", "_">>
                      ELSE <<"Square", "_">>
        IN  IF Len(parts) >= at /\ IsFloat(parts[at])
            THEN [ok |-> TRUE, name |-> prefix \o Fmt3Str(ToFloat(parts[at]))]
            ELSE [ok |-> FALSE, name |-> <<>>]

ChannelsStr(num_channels) ==
    IF num_channels = NoChannels THEN <<"None">> ELSE NatStr(num_channels)

\* the rows the with-block writes before it ends or raises:
\* [rows, ok]; ok is FALSE when times_start[i] or times_end[i] raises
RECURSIVE ChannelRows(_, _, _, _, _)
ChannelRows(ts, te, colors, n, i) ==
    IF i > n THEN [rows |-> <<>>, ok |-> TRUE]
    ELSE IF i > Len(ts) \/ i > Len(te) THEN [rows |-> <<>>, ok |-> FALSE]
    ELSE
        LET rest == ChannelRows(ts, te, colors, n, i + 1)
            row == <<"Ch", i, Fmt3(ts[i]), Fmt3(te[i]),
                     colors[i][1], colors[i][2], colors[i][3], "2">>
        IN  [rows |-> <<row>> \o rest.rows, ok |-> rest.ok]

SamplingRows(sampling_name, ts, te, units, n) ==
    LET row1 == <<"Sampling Name", sampling_name>>
    IN  IF Len(ts) = 0 \/ Len(te) = 0 THEN [rows |-> <<row1>>, ok |-> FALSE]
        ELSE
            LET ch == ChannelRows(ts, te, generate_channel_colors(n), n, 1)
            IN  [ rows |-> << row1,
                               <<"Primary Time Gate", Fmt3(ts[1]), Fmt3(te[1])>>,
                               <<"Field Type", _determine_field_type(units)>>,
                               <<"Channel Name", "ChStart", "ChEnd", "Red",
                                 "Green", "Blue", "LineWt">> >> \o ch.rows,
                  ok |-> ch.ok ]

\* _generate_sampling_csv(header_data, waveform_name, output_dir) on dir:
\*   ret     the returned file name, NoneS for None (every exception is
\*           caught and turned into None)
\*   dir     the directory afterwards
\*   header  header_data afterwards (the method stores sampling_file in it)
_generate_sampling_csv(header_data, waveform_name, dir) ==
    LET us == SniffUs(header_data.header_lines)
        ts0 == header_data.times_start
        te0 == header_data.times_end
        ts == IF us THEN [i \in 1..Len(ts0) |-> Div1000(ts0[i])] ELSE ts0
        te == IF us THEN [i \in 1..Len(te0) |-> Div1000(te0[i])] ELSE te0
        n == header_data.num_channels
        fmt == FormatBaseName(Stem(waveform_name))
        failed == [ret |-> NoneS, dir |-> dir, header |-> header_data]
    IN  IF ~fmt.ok THEN failed
        ELSE
            LET sampling_name == fmt.name \o <<"_">> \o ChannelsStr(n) \o <<"ch">>
                filename == sampling_name \o <<".csv">>
                header == [h \in {"sampling_file"} \cup DOMAIN header_data |->
                              IF h = "sampling_file" THEN filename
                              ELSE header_data[h]]
            IN  IF n = NoChannels THEN [failed EXCEPT !.header = header]
                ELSE
                    LET out == SamplingRows(sampling_name, ts, te,
                                            header_data.units, n)
                    IN  [ ret |-> IF out.ok THEN filename ELSE NoneS,
                          dir |-> (filename :> out.rows) @@ dir,
                          header |-> header ]

-----------------------------------------------------------------------------
(* PEM files.                                                              *)
(* A line is [k, ok, time_base, ramp_time, units, dash, dollar, toks]:     *)
(*   k         "survey" for a line holding both "Metric" and "Cable",      *)
(*             "data" for any other non-blank line, "blank";               *)
(*   ok        survey line: its 7 fields are there and convert;            *)
(*   time_base survey line: parts[3], in hundredths of a millisecond;      *)
(*   ramp_time survey line: parts[4], in microseconds;                     *)
(*   dash      the line starts with "-" and holds an "e";                  *)
(*   dollar    the line holds a "$";                                       *)
(*   toks      the whitespace-separated items, each [t, v]: "num" holds an *)
(*             "e" and float() accepts it (v in microseconds), "bad" holds *)
(*             an "e" and float() raises, "empty" holds no "e".            *)
(***************************************************************************)

SurveyLine(ok, time_base, ramp_time) ==
    [ k |-> "survey", ok |-> ok, time_base |-> time_base,
      ramp_time |-> ramp_time, units |-> "Metric", dash |-> FALSE,
      dollar |-> FALSE, toks |-> <<BadTok, BadTok>> ]

DataLine(dash, dollar, toks) ==
    [ k |-> "data", ok |-> TRUE, time_base |-> 0, ramp_time |-> 0,
      units |-> "", dash |-> dash, dollar |-> dollar, toks |-> toks ]

InitPem ==
    [ found |-> FALSE, survey |-> DataLine(FALSE, FALSE, <<>>),
      raised |-> FALSE, in_section |-> FALSE, stopped |-> FALSE,
      time_windows |-> <<>> ]

\* the body of "for line in content" for one line
PemLine(st, line) ==
    IF st.stopped \/ st.raised \/ line.k = "blank" THEN st
    ELSE IF ~st.found /\ line.k = "survey"
    THEN IF line.ok THEN [st EXCEPT !.found = TRUE, !.survey = line]
         ELSE [st EXCEPT !.raised = TRUE]
    ELSE
        LET st1 == IF line.dash /\ ~st.in_section
                   THEN [st EXCEPT !.in_section = TRUE] ELSE st
        IN  IF ~st1.in_section THEN st1
            ELSE IF line.dollar THEN [st1 EXCEPT !.stopped = TRUE]
            ELSE IF Raises(line.toks) THEN st1
            ELSE [st1 EXCEPT !.time_windows = @ \o Values(line.toks)]

RECURSIVE PemLines(_, _)
PemLines(st, lines) ==
    IF Len(lines) = 0 THEN st
    ELSE PemLines(PemLine(st, Head(lines)), Tail(lines))

\* 1.0 / (4 * time_base / 1000.0), on the fixed-point grid
BaseFreqOf(time_base) == (250 * Scale * 100) \div time_base

\* parse_pem_file falling back to default survey parameters when the survey
\* line is missing
parse_pem_file_DefaultSurvey(file) ==
    LET st == PemLines(InitPem, file.lines)
        fail == [ raised |-> TRUE, base_freq |-> 0, ramp_time |-> 0,
                  units |-> "", time_windows |-> <<>> ]
    IN  IF ~file.readable THEN fail
        ELSE IF st.raised THEN fail
        ELSE [ raised |-> FALSE,
               base_freq |-> BaseFreqOf(IF st.found /\ st.survey.time_base # 0
                                        THEN st.survey.time_base ELSE 1666),
               ramp_time |-> st.survey.ramp_time,
               units |-> st.survey.units,
               time_windows |-> st.time_windows ]

\* parse_pem_file(file_path): [raised, base_freq, ramp_time, units,
\* time_windows]; raised is TRUE when an exception leaves the method
parse_pem_file(file) ==
    LET st == PemLines(InitPem, file.lines)
        fail == [ raised |-> TRUE, base_freq |-> 0, ramp_time |-> 0,
                  units |-> "", time_windows |-> <<>> ]
    IN  IF ~file.readable THEN fail
        ELSE IF st.raised THEN fail
        ELSE IF ~st.found THEN fail
        ELSE IF st.survey.time_base = 0 THEN fail
        ELSE [ raised |-> FALSE,
               base_freq |-> BaseFreqOf(st.survey.time_base),
               ramp_time |-> st.survey.ramp_time,
               units |-> st.survey.units,
               time_windows |-> st.time_windows ]

\* generate_pem_waveform_csv: the rows written; times and currents in
\* millionths, as the 6-decimal format prints them
PemWaveformRows(base_freq, ramp_time) ==
    << <<"Waveform Name", <<"Crone", "_", "1", "5", "Hz">>>>,
       <<"Time Units", "scaled">>,
       <<"Base Frequency", Fmt3(base_freq)>>,
       <<"Waveform Zero Time", 0>>,
       <<"Scaled Time", "Current">>,
       <<0, 0>>, <<20000, 550671>>, <<40000, 798103>>, <<60000, 909282>>,
       <<80000, 959238>>, <<100000, 981684>>, <<140000, 996302>>,
       <<160000, 998338>>, <<200000, 1000000>>,
       <<250000 - ramp_time, 1000000>>, <<250000, 0>>, <<500000, 0>> >>

\* x * 1000 for an x in seconds counted in microseconds, on the grid of
\* milliseconds
SecToMs(x) == x * (Scale \div 1000)

\* the colour bands of generate_pem_sampling_csv, in millionths
PemColor(ch_num) ==
    IF ch_num <= 12
    THEN <<996094, 144533 + (ch_num - 1) * 70800,
           652326 - (ch_num - 1) * 54500>>
    ELSE IF ch_num <= 15
    THEN <<697813 - (ch_num - 13) * 298800, 996094, 0>>
    ELSE <<0, 996094 - (ch_num - 16) * 98800,
           198521 + (ch_num - 16) * 298800>>

\* PemChannelRows pairing the list elements without overlap: Ch i reads
\* the elements 2i and 2i+1
PemChannelRows_Disjoint(tw) ==
    [i \in 1..((Len(tw) - 2) \div 2) |->
        <<"Ch", i, Fmt3(SecToMs(tw[2 * i + 1])), Fmt3(SecToMs(tw[2 * i + 2])),
          PemColor(i)[1], PemColor(i)[2], PemColor(i)[3], "2">>]

PemChannelRows(tw) ==
    IF Len(tw) > 3
    THEN [i \in 1..(Len(tw) - 3) |->
            <<"Ch", i, Fmt3(SecToMs(tw[i + 2])), Fmt3(SecToMs(tw[i + 3])),
              PemColor(i)[1], PemColor(i)[2], PemColor(i)[3], "2">>]
    ELSE <<>>

\* generate_pem_sampling_csv: the rows written before the with-block ends
\* or raises (every exception is caught and logged)
PemSamplingRows(tw) ==
    LET gate == IF Len(tw) >= 2
                THEN <<"Primary Time Gate", Fmt3(SecToMs(tw[1])),
                       Fmt3(SecToMs(tw[2]))>>
                ELSE <<"Primary Time Gate", "-0.2", "-0.1">>
        head == << <<"Sampling Name",
                     <<"Crone", "_", "1", "5", "Hz", "_", "2", "1", "ch">>>>, gate,
                   <<"Field Type", "dBdT">>,
                   <<"Channel Name", "ChStart", "ChEnd", "Red", "Green",
                     "Blue", "LineWt">> >>
        pp == IF Len(tw) >= 2
              THEN << <<"PP", Fmt3(SecToMs(tw[1])), Fmt3(SecToMs(tw[2])),
                        "0", "0.299774", "0.996094", "2">> >>
              ELSE <<>>
    IN  head \o PemChannelRows(tw) \o pp

\* str(n) for an integer
IntStr(n) == IF n < 0 THEN <<"-">> \o NatStr(0 - n) ELSE NatStr(n)

\* f"Crone_{base_freq:.0f}Hz.csv"
PemWaveformFile(base_freq) ==
    <<"Crone", "_">> \o Fmt0Str(base_freq) \o <<"Hz", ".csv">>

\* f"Crone_{base_freq:.0f}Hz_{len(time_windows)-3}ch.csv"
PemSamplingFile(base_freq, tw) ==
    <<"Crone", "_">> \o Fmt0Str(base_freq) \o <<"Hz", "_">>
    \o IntStr(Len(tw) - 3) \o <<"ch", ".csv">>

-----------------------------------------------------------------------------
(* MCG files.                                                              *)
(* The content is [readable, name, wave, base_frequency, timing_mark,      *)
(* chan, units, unit_types]: what each of the six regular expressions      *)
(* finds.  wave and chan are [present, ok, rows]: the block is there, its  *)
(* rows have three fields that convert, and the (2nd, 3rd) fields of the   *)
(* rows; the other four are [present, ...].                                *)
(***************************************************************************)

\* 0.5 * time / max_time if time != 0 else 0.0, in millionths, rounded to
\* the nearest millionth as the 6-decimal format does (max_time # 0 when
\* time # 0)
ScaledTime(time, max_time) ==
    IF time = 0 THEN 0
    ELSE LET num == 500000 * Abs(time)
             den == Abs(max_time)
             q == (2 * num + den) \div (2 * den)
         IN  IF (time < 0) = (max_time < 0) THEN q ELSE 0 - q

RECURSIVE MaxOf(_)
MaxOf(xs) ==
    IF Len(xs) = 1 THEN xs[1]
    ELSE LET m == MaxOf(Tail(xs)) IN IF xs[1] > m THEN xs[1] ELSE m

\* the list comprehension of the scaling divides by a max_time of zero
ScalingRaises(m) ==
    LET pts == m.wave.rows
    IN  /\ MaxOf([i \in 1..Len(pts) |-> pts[i][1]]) = 0
        /\ \E i \in 1..Len(pts) : pts[i][1] # 0

McgWaveformHead(m) ==
    << <<"Waveform Name", <<m.name>>>> >>
    \o (IF m.base_frequency.present
        THEN << <<"Base Frequency", m.base_frequency.text>> >> ELSE <<>>)
    \o (IF m.base_frequency.present /\ m.timing_mark.present
        THEN << <<"Waveform Zero Time", m.timing_mark.text>> >> ELSE <<>>)

McgWaveformPoints(m) ==
    LET pts == m.wave.rows
        max_time == MaxOf([i \in 1..Len(pts) |-> pts[i][1]])
    IN  << <<"Scaled Time", "Current">> >>
        \o [i \in 1..Len(pts) |-> <<ScaledTime(pts[i][1], max_time), pts[i][2]>>]

mcg_dbdt_units == {"uV", "nV", "pV", "nT/s", "pT/s"}

McgSamplingRows(m) ==
    LET ch == m.chan.rows
        n == Len(ch)
        unit == m.unit_types.map[m.units.index]
    IN  << <<"Sampling Name", <<m.name, "_">> \o NatStr(n) \o <<"ch">>>>,
           <<"Primary Time Gate", Fmt3(SecToMs(ch[1][1])),
             Fmt3(SecToMs(ch[1][2]))>>,
           <<"Field Type", IF unit \in mcg_dbdt_units THEN "dbdt" ELSE "b">>,
           <<"Channel Name", "ChStart", "ChEnd", "Red", "Green", "Blue",
             "LineWt">> >>
        \o [i \in 1..n |->
              <<"Ch", i, Fmt3(SecToMs(ch[i][1])), Fmt3(SecToMs(ch[i][2])),
                25 + (i - 1) * 5, 75 - (i - 1) * 5, "0.50", "2">>]

\* parse_mcg_file(mcg_path, export_dir) on the two directories:
\* [raised, wf, sp]; raised is TRUE when an exception leaves the function
parse_mcg_file(m, wf, sp) ==
    LET wname == <<m.name, ".csv">>
        stop(w, s) == [raised |-> TRUE, wf |-> w, sp |-> s]
    IN  IF ~m.readable THEN stop(wf, sp)
        ELSE IF ~m.wave.present \/ ~m.wave.ok THEN stop(wf, sp)
        ELSE IF ScalingRaises(m) THEN stop(wf, sp)
        ELSE IF ~(m.base_frequency.present /\ m.timing_mark.present)
        THEN stop((wname :> McgWaveformHead(m)) @@ wf, sp)
        ELSE
            LET wf1 == (wname :> (McgWaveformHead(m) \o McgWaveformPoints(m)))
                       @@ wf
            IN  IF ~m.chan.present \/ ~m.chan.ok THEN stop(wf1, sp)
                ELSE IF ~m.units.present \/ ~m.unit_types.present
                THEN stop(wf1, sp)
                ELSE IF m.units.index \notin DOMAIN m.unit_types.map
                THEN stop(wf1, sp)
                ELSE [ raised |-> FALSE, wf |-> wf1,
                       sp |-> ((<<m.name, "_">> \o NatStr(Len(m.chan.rows))
                                \o <<"ch", ".csv">>) :> McgSamplingRows(m))
                              @@ sp ]

-----------------------------------------------------------------------------
(* Inputs *)

Ms(n) == n * Scale

\* directive lines a TEM header is drawn from
DirLines ==
    { DirLine("TIMESSTART", "ms", <<Num(Ms(1)), Num(Ms(2))>>),
      DirLine("TIMESSTART", "us", <<Num(Ms(1000)), Num(Ms(2000))>>),
      DirLine("TIMESEND", "ms", <<Num(Ms(2)), Num(Ms(3))>>),
      DirLine("TIMESEND", "ms", <<Num(Ms(3))>>),
      DirLine("TIMES", "ms", <<Num(Ms(5)), Num(Ms(7))>>),
      DirLine("TIMES", "us", <<Num(Ms(5000)), Num(Ms(7000))>>),
      DirLine("TIMES", "us", <<Num(Ms(5000)), BadTok>>),
      DirLine("TIMESWIDTH", "ms", <<Num(Ms(1)), Num(Ms(2))>>),
      DirLine("TIMESWIDTH", "us", <<Num(Ms(1000)), Num(Ms(2000))>>) }

Range(q) == {q[i] : i \in 1..Len(q)}

\* the sequences of at most n different elements of S
RECURSIVE SeqsUpTo(_, _)
SeqsUpTo(S, n) ==
    IF n = 0 THEN {<<>>}
    ELSE LET shorter == SeqsUpTo(S, n - 1)
             Extend(q) == {Append(q, x) : x \in S \ Range(q)}
         IN  shorter \cup UNION {Extend(q) : q \in shorter}

Freq52 == Part("BFREQ", <<"5", ".", "2">>)

\* key=value lines a TEM header is drawn from
PlainHead == KvLine(<<Freq52, Part("units", <<"(", "nT/As", ")">>)>>)

KvHeads ==
    { PlainHead,
      KvLine(<<Part("UNITS", <<"nT">>)>>),
      KvLine(<<Part("BFREQ", <<"5", ",", "2">>)>>),
      KvLine(<<Part("BFREQ", <<"1", "/", "2">>)>>),
      KvLine(<<Freq52, Part("TXWAVEFORM", <<"UTEM">>)>>),
      KvLine(<<Freq52, Part("TXWAVEFORM", <<"Square">>)>>),
      KvLine(<<Freq52, Part("DUTY", <<"5", "0">>)>>),
      KvLine(<<Freq52, Part("DUTYCYCLE", <<"4", "9", ".", "5">>)>>),
      KvLine(<<Part("BASEFREQ", <<"3", "0">>),
               Part("DUTY", <<"1", "0", "0">>)>>),
      KvLine(<<Freq52, Part("TXWAVEFORM", <<"UTEM">>),
               Part("DUTY", <<"5", "0">>)>>),
      KvLine(<<Part("BFREQ", <<"5", ",", "2">>),
               Part("TXWAVEFORM", <<"UTEM">>)>>),
      KvLine(<<Part("BFREQ", <<"5", "0", "_", "Square">>)>>),
      KvLine(<<Freq52, Part("DUTY", <<"h", "a", "l", "f">>)>>) }

TemFile(readable, lines) == [ext |-> "tem", readable |-> readable, lines |-> lines]

\* TEM files: every sequence of directive lines under a plain head, and
\* every head over a few directive sequences
TemInputs ==
    {TemFile(TRUE, <<PlainHead>> \o d) : d \in SeqsUpTo(DirLines, MaxDirectives)}
    \cup {TemFile(TRUE, <<h>> \o d) :
            h \in KvHeads,
            d \in { <<>>,
                    <<DirLine("TIMESEND", "ms", <<>>)>>,
                    <<DirLine("TIMESSTART", "ms", <<Num(Ms(1)), Num(Ms(2))>>),
                      DirLine("TIMESEND", "ms", <<Num(Ms(2)), Num(Ms(3))>>)>> }}
    \cup {TemFile(FALSE, <<PlainHead>>)}

Empty == <<>>

-----------------------------------------------------------------------------
(* AnalysisPage: the results table and the project file.                   *)
(* A file of the batch is named by its position in the list; a project     *)
(* file is [exists, lines], each line [path, text]: a line of text has     *)
(* path NoPath, an entry "<rel_path>,<data_style>" has the file as path    *)
(* and the data style as text.                                             *)

NoPath == 0
\* the path of a data file that is not in the batch
OtherPath == 0 - 1

Line(text) == [path |-> NoPath, text |-> text]
Entry(path, data_style) == [path |-> path, text |-> data_style]

Absent == [exists |-> FALSE, lines |-> <<>>]

\* a table row no item was set in: self.table.item(row, col) is None
NoItems == [items |-> FALSE]

\* str(value) of a results field
Str(value) == IF value = NoneS THEN <<"None">> ELSE value

\* "Determine Data Style based on tx_waveform"
DataStyle(tx_waveform) ==
    IF tx_waveform = <<"UTEM">> THEN "DataFileStyleBoreholeUTEM"
    ELSE IF tx_waveform = <<"Crone">> THEN "DataFileStyleCrone"
    ELSE "DataFileStyleBoreholeSJV"

\* the items update_table sets in the row of one results entry
Row(file_path, result_data) ==
    IF result_data = None
    THEN NoItems
    ELSE [ items          |-> TRUE,
           file_path      |-> file_path,
           base_frequency |-> result_data.base_frequency,
           units          |-> result_data.units,
           num_channels   |-> result_data.num_channels,
           tx_waveform    |-> result_data.tx_waveform,
           waveform_file  |-> Str(result_data.waveform_file),
           sampling_file  |-> Str(result_data.sampling_file),
           data_style     |-> DataStyle(result_data.tx_waveform) ]

\* update_table: one row per results entry, in insertion order
TableOf(res, n) ==
    LET InResults(i) == i \in DOMAIN res
        keys == SelectSeq([i \in 1..n |-> i], InResults)
    IN  [r \in 1..Len(keys) |-> Row(keys[r], res[keys[r]])]

-----------------------------------------------------------------------------
(* One TEM file through parse_file_headers, _generate_waveform_csv and     *)
(* _generate_sampling_csv, called one after the other.                     *)

InitTem ==
    /\ files \in {<<f>> : f \in TemInputs}
    /\ idx = 1
    /\ pc = "start"
    /\ results = Empty
    /\ wfDir = Empty
    /\ spDir = Empty
    /\ rec = None
    /\ wfRet = NoneS
    /\ spRet = NoneS
    /\ log = <<>>
    /\ mcg = None
    /\ table = <<>>
    /\ rewritten = Empty
    /\ project = Absent
    /\ status = ""

ParseFileHeaders ==
    /\ pc = "start"
    /\ rec' = parse_file_headers(files[1])
    /\ pc' = IF rec' = None THEN "failed" ELSE "parsed"
    /\ UNCHANGED <<files, idx, results, wfDir, spDir, wfRet, spRet, log, mcg>>
    /\ UNCHANGED <<table, rewritten, project, status>>

GenerateWaveform ==
    /\ pc \in {"parsed", "waved"}
    /\ Len(log) < MaxCalls
    /\ LET out == _generate_waveform_csv(rec, wfDir)
       IN  /\ wfDir' = out.dir
           /\ wfRet' = out.ret
           /\ log' = Append(log, [ op |-> "waveform", i |-> 1,
                                   ret |-> out.ret, raised |-> out.raised,
                                   wrote |-> out.wrote, before |-> wfDir,
                                   after |-> out.dir ])
           /\ pc' = IF out.raised THEN "raised" ELSE "waved"
    /\ UNCHANGED <<files, idx, results, spDir, rec, spRet, mcg>>
    /\ UNCHANGED <<table, rewritten, project, status>>

GenerateSampling ==
    /\ pc = "waved"
    /\ wfRet # NoneS
    /\ LET out == _generate_sampling_csv(rec, wfRet, spDir)
       IN  /\ spDir' = out.dir
           /\ spRet' = out.ret
           /\ rec' = out.header
    /\ pc' = "sampled"
    /\ UNCHANGED <<files, idx, results, wfDir, wfRet, log, mcg>>
    /\ UNCHANGED <<table, rewritten, project, status>>

NextTem == ParseFileHeaders \/ GenerateWaveform \/ GenerateSampling

SpecTem == InitTem /\ [][NextTem]_vars

-----------------------------------------------------------------------------
(* AnalysisPage.process_files: the batch driver.                           *)

PemFile(readable, lines) == [ext |-> "pem", readable |-> readable, lines |-> lines]

Us(n) == Num(n)

WindowLines ==
    << DataLine(TRUE, FALSE, <<Us(0 - 200), Us(0 - 100), Us(50)>>),
       DataLine(FALSE, FALSE, <<Us(100), Us(200), EmptyTok>>),
       DataLine(FALSE, TRUE, <<>>) >>

TwoWindows ==
    <<DirLine("TIMESSTART", "ms", <<Num(Ms(1)), Num(Ms(2))>>),
      DirLine("TIMESEND", "ms", <<Num(Ms(2)), Num(Ms(3))>>)>>

\* files a batch is drawn from
BatchInputs ==
    { TemFile(TRUE, <<PlainHead>> \o TwoWindows),
      TemFile(TRUE, <<KvLine(<<Part("BFREQ", <<"1", "/", "2">>)>>)>> \o TwoWindows),
      TemFile(TRUE, <<KvLine(<<Part("UNITS", <<"nT">>)>>)>> \o TwoWindows),
      TemFile(TRUE, <<PlainHead,
                      DirLine("TIMES", "ms", <<Num(Ms(5)), Num(Ms(7))>>),
                      DirLine("TIMESWIDTH", "ms", <<Num(Ms(1)), Num(Ms(2))>>)>>),
      TemFile(TRUE, <<PlainHead>>),
      TemFile(FALSE, <<PlainHead>>),
      PemFile(TRUE, <<SurveyLine(TRUE, 1666, 1500)>> \o WindowLines),
      PemFile(TRUE, WindowLines),
      PemFile(TRUE, <<SurveyLine(FALSE, 0, 0)>> \o WindowLines),
      [ext |-> "txt", readable |-> TRUE, lines |-> <<>>] }

RECURSIVE ListsUpTo(_, _)
ListsUpTo(S, n) ==
    IF n = 0 THEN {<<>>}
    ELSE LET shorter == ListsUpTo(S, n - 1)
         IN  shorter \cup {Append(q, x) : q \in shorter, x \in S}

Call(op, i, ret, raised, wrote) ==
    [ op |-> op, i |-> i, ret |-> ret, raised |-> raised, wrote |-> wrote,
      before |-> Empty, after |-> Empty ]

\* f"{base_freq:.1f}", as a count of tenths
Fmt1(x) == (x + (Scale \div 20)) \div (Scale \div 10)

InitBatch ==
    /\ files \in ListsUpTo(BatchInputs, MaxFiles) \ {<<>>}
    /\ idx = 1
    /\ pc = "loop"
    /\ results = Empty
    /\ wfDir = Empty
    /\ spDir = Empty
    /\ rec = None
    /\ wfRet = NoneS
    /\ spRet = NoneS
    /\ log = <<>>
    /\ mcg = None
    /\ table = <<>>
    /\ rewritten = Empty
    /\ project = Absent
    /\ status = ""

\* the results entry stored for a TEM file
TemEntry(header_data, waveform_file, sampling_file) ==
    [ base_frequency |-> header_data.base_frequency,
      units          |-> header_data.units,
      num_channels   |-> header_data.num_channels,
      tx_waveform    |-> header_data.tx_waveform,
      waveform_file  |-> waveform_file,
      sampling_file  |-> sampling_file ]

\* the results entry stored for a PEM file
PemEntry(p) ==
    [ base_frequency |-> Fmt1(p.base_freq),
      units          |-> p.units,
      num_channels   |-> Len(p.time_windows) - 3,
      tx_waveform    |-> <<"Crone">>,
      waveform_file  |-> PemWaveformFile(p.base_freq),
      sampling_file  |-> PemSamplingFile(p.base_freq, p.time_windows) ]

\* the loop body for a .tem file
ProcessTem ==
    /\ pc = "loop"
    /\ idx <= Len(files)
    /\ files[idx].ext = "tem"
    /\ LET header_data == parse_file_headers(files[idx])
           parsed == Call("parse_file_headers", idx, NoneS, FALSE, FALSE)
       IN  IF header_data = None
           THEN /\ log' = Append(log, parsed)
                /\ rec' = None
                /\ idx' = idx + 1
                /\ UNCHANGED <<pc, results, wfDir, spDir, wfRet, spRet>>
                /\ UNCHANGED <<table, status>>
           ELSE
               LET wf == _generate_waveform_csv(header_data, wfDir)
                   waved == Call("waveform", idx, wf.ret, wf.raised, wf.wrote)
                   sp == _generate_sampling_csv(header_data, wf.ret, spDir)
                   sampled == Call("sampling", idx, sp.ret, FALSE, TRUE)
               IN  /\ wfDir' = wf.dir
                   /\ wfRet' = wf.ret
                   /\ IF wf.raised
                      THEN /\ pc' = "error"
                           /\ log' = log \o <<parsed, waved>>
                           /\ rec' = header_data
                           /\ status' = "Error processing files!"
                           /\ table' = TableOf(results, Len(files))
                           /\ UNCHANGED <<idx, results, spDir, spRet>>
                      ELSE IF wf.ret = NoneS
                      THEN /\ log' = log \o <<parsed, waved>>
                           /\ rec' = header_data
                           /\ idx' = idx + 1
                           /\ UNCHANGED <<pc, results, spDir, spRet>>
                           /\ UNCHANGED <<table, status>>
                      ELSE /\ log' = log \o <<parsed, waved, sampled>>
                           /\ rec' = sp.header
                           /\ spDir' = sp.dir
                           /\ spRet' = sp.ret
                           /\ results' = (idx :> TemEntry(sp.header, wf.ret, sp.ret))
                                         @@ results
                           /\ idx' = idx + 1
                           /\ UNCHANGED <<pc, table, status>>
    /\ UNCHANGED <<files, mcg, rewritten, project>>

\* the loop body for a .pem file
ProcessPem ==
    /\ pc = "loop"
    /\ idx <= Len(files)
    /\ files[idx].ext = "pem"
    /\ LET p == parse_pem_file(files[idx])
           parsed == Call("parse_pem_file", idx, NoneS, p.raised, FALSE)
       IN  IF p.raised
           THEN /\ results' = (idx :> None) @@ results
                /\ log' = Append(log, parsed)
                /\ UNCHANGED <<wfDir, spDir>>
           ELSE /\ wfDir' = (PemWaveformFile(p.base_freq)
                               :> PemWaveformRows(p.base_freq, p.ramp_time))
                             @@ wfDir
                /\ spDir' = (PemSamplingFile(p.base_freq, p.time_windows)
                               :> PemSamplingRows(p.time_windows))
                             @@ spDir
                /\ results' = (idx :> PemEntry(p)) @@ results
                /\ log' = log \o
                      << parsed,
                         Call("pem_waveform", idx,
                              PemWaveformFile(p.base_freq), FALSE, TRUE),
                         Call("pem_sampling", idx,
                              PemSamplingFile(p.base_freq, p.time_windows),
                              FALSE, TRUE) >>
    /\ idx' = idx + 1
    /\ UNCHANGED <<files, pc, rec, wfRet, spRet, mcg>>
    /\ UNCHANGED <<table, rewritten, project, status>>

\* a file whose suffix is neither .tem nor .pem is passed over
SkipFile ==
    /\ pc = "loop"
    /\ idx <= Len(files)
    /\ files[idx].ext \notin {"tem", "pem"}
    /\ idx' = idx + 1
    /\ UNCHANGED <<files, pc, results, wfDir, spDir, rec, wfRet, spRet, log, mcg>>
    /\ UNCHANGED <<table, rewritten, project, status>>

\* the loop is over: self.update_table()
UpdateTable ==
    /\ pc = "loop"
    /\ idx > Len(files)
    /\ pc' = "done"
    /\ table' = TableOf(results, Len(files))
    /\ UNCHANGED <<files, idx, results, wfDir, spDir, rec, wfRet, spRet, log, mcg>>
    /\ UNCHANGED <<rewritten, project, status>>

NextBatch == ProcessTem \/ ProcessPem \/ SkipFile \/ UpdateTable

SpecBatch == InitBatch /\ [][NextBatch]_vars

-----------------------------------------------------------------------------
(* One PEM file through the .pem branch of process_files.                  *)

\* data lines a PEM file is drawn from
PemDataLines ==
    { DataLine(TRUE, FALSE, <<Us(0 - 200), Us(0 - 100)>>),
      DataLine(TRUE, FALSE, <<Us(0 - 200)>>),
      DataLine(TRUE, FALSE, <<Us(0 - 200), Us(0 - 100), Us(50), Us(100),
                              Us(200), Us(400)>>),
      DataLine(FALSE, FALSE, <<Us(50), Us(100)>>),
      DataLine(FALSE, FALSE, <<Us(200), EmptyTok>>),
      DataLine(FALSE, FALSE, <<Us(400), BadTok>>),
      DataLine(FALSE, TRUE, <<Us(800)>>) }

PemInputs ==
    {PemFile(TRUE, <<SurveyLine(TRUE, 1666, 1500)>> \o d) :
        d \in SeqsUpTo(PemDataLines, MaxPemLines)}
    \cup {PemFile(TRUE, <<d, SurveyLine(TRUE, 1666, 1500)>> \o e) :
            d \in PemDataLines, e \in SeqsUpTo(PemDataLines, 1)}
    \cup {PemFile(TRUE, <<SurveyLine(TRUE, 2083, 1500)>> \o WindowLines),
          PemFile(TRUE, WindowLines), PemFile(FALSE, WindowLines)}

InitPemFile ==
    /\ files \in {<<f>> : f \in PemInputs}
    /\ idx = 1
    /\ pc = "loop"
    /\ results = Empty
    /\ wfDir = Empty
    /\ spDir = Empty
    /\ rec = None
    /\ wfRet = NoneS
    /\ spRet = NoneS
    /\ log = <<>>
    /\ mcg = None
    /\ table = <<>>
    /\ rewritten = Empty
    /\ project = Absent
    /\ status = ""

NextPem == ProcessPem \/ UpdateTable

SpecPem == InitPemFile /\ [][NextPem]_vars

-----------------------------------------------------------------------------
(* generate_channel_colors and _determine_field_type called on their own.  *)

\* units values: every member of the two unit sets, a missing value and
\* strings in neither set
UnitInputs ==
    dbdt_units \cup b_field_units
    \cup {NoneS, <<>>, <<"nT/s">>, <<"V">>, <<"dBdT">>, <<"NT">>, <<"uv">>}

InitFn ==
    /\ rec \in [num_channels : 0..MaxChannels, units : UnitInputs]
    /\ files = <<>>
    /\ idx = 1
    /\ pc = "call"
    /\ results = Empty
    /\ wfDir = Empty
    /\ spDir = Empty
    /\ wfRet = NoneS
    /\ spRet = NoneS
    /\ log = <<>>
    /\ mcg = None
    /\ table = <<>>
    /\ rewritten = Empty
    /\ project = Absent
    /\ status = ""

GenerateChannelColors ==
    /\ pc = "call"
    /\ "colors" \notin DOMAIN results
    /\ results' = ("colors" :> generate_channel_colors(rec.num_channels))
                  @@ results
    /\ UNCHANGED <<files, idx, pc, wfDir, spDir, rec, wfRet, spRet, log, mcg>>
    /\ UNCHANGED <<table, rewritten, project, status>>

DetermineFieldType ==
    /\ pc = "call"
    /\ "field_type" \notin DOMAIN results
    /\ results' = ("field_type" :> _determine_field_type(rec.units)) @@ results
    /\ UNCHANGED <<files, idx, pc, wfDir, spDir, rec, wfRet, spRet, log, mcg>>
    /\ UNCHANGED <<table, rewritten, project, status>>

NextFn == GenerateChannelColors \/ DetermineFieldType

SpecFn == InitFn /\ [][NextFn]_vars

-----------------------------------------------------------------------------
(* AnalysisPage.import_from_mcg: parse_mcg_file on the chosen file.        *)

Block(present, ok, rows) == [present |-> present, ok |-> ok, rows |-> rows]

McgWaves ==
    { Block(FALSE, FALSE, <<>>),
      Block(TRUE, FALSE, <<>>),
      Block(TRUE, TRUE, <<<<0, 1000000>>, <<50, 1000000>>, <<100, 0>>>>),
      Block(TRUE, TRUE, <<<<0, 0>>>>),
      Block(TRUE, TRUE, <<<<0, 0>>, <<100, 1000000>>, <<300, 0>>>>),
      Block(TRUE, TRUE, <<<<0 - 200, 1000000>>, <<0 - 100, 0>>>>),
      Block(TRUE, TRUE, <<<<0 - 100, 1000000>>, <<0, 0>>>>) }

McgChans ==
    { Block(FALSE, FALSE, <<>>),
      Block(TRUE, FALSE, <<>>),
      Block(TRUE, TRUE, <<<<100, 200>>, <<200, 400>>>>) }

McgTexts == { [present |-> FALSE, text |-> ""], [present |-> TRUE, text |-> "5.0"] }

McgUnits == { [present |-> FALSE, index |-> 0], [present |-> TRUE, index |-> 1],
              [present |-> TRUE, index |-> 2], [present |-> TRUE, index |-> 9] }

McgUnitTypes ==
    { [present |-> FALSE, map |-> Empty],
      [present |-> TRUE, map |-> <<"nT", "nT/s">>] }

McgInputs ==
    [ readable : BOOLEAN, name : {"loop1"}, wave : McgWaves,
      base_frequency : McgTexts, timing_mark : McgTexts, chan : McgChans,
      units : McgUnits, unit_types : McgUnitTypes ]

InitMcg ==
    /\ mcg \in McgInputs
    /\ table = <<>>
    /\ rewritten = Empty
    /\ project = Absent
    /\ status = ""
    /\ files = <<>>
    /\ idx = 1
    /\ pc = "start"
    /\ results = Empty
    /\ wfDir = Empty
    /\ spDir = Empty
    /\ rec = None
    /\ wfRet = NoneS
    /\ spRet = NoneS
    /\ log = <<>>

ImportFromMcg ==
    /\ pc = "start"
    /\ LET out == parse_mcg_file(mcg, wfDir, spDir)
       IN  /\ wfDir' = out.wf
           /\ spDir' = out.sp
           /\ log' = Append(log, Call("parse_mcg_file", 1, NoneS, out.raised,
                                      out.wf # wfDir \/ out.sp # spDir))
           /\ pc' = IF out.raised THEN "import_error" ELSE "imported"
    /\ UNCHANGED <<files, idx, results, rec, wfRet, spRet, mcg>>
    /\ UNCHANGED <<table, rewritten, project, status>>

NextMcg == ImportFromMcg

SpecMcg == InitMcg /\ [][NextMcg]_vars

-----------------------------------------------------------------------------
(* The page after a batch: the buttons write_headers and                   *)
(* create_project_file. The parts of a key=value line stand for its        *)
(* tab-separated fields.                                                   *)

\* any(pattern in line for pattern in ['BFREQ', 'BASEFREQ', 'BASEFREQUENCY'])
HasFrequency(line) ==
    \E k \in 1..Len(line.kv) :
        line.kv[k].key \in {"BFREQ", "BASEFREQ", "BASEFREQUENCY"}

\* not (p.startswith('WAVEFORM:') or p.startswith('SAMPLING:'))
NotTag(part) == part.key \notin {"WAVEFORM", "SAMPLING"}

\* the frequency line with its old tags dropped and the new ones added
Tagged(line, waveform_name, sampling_name) ==
    KvLine(SelectSeq(line.kv, NotTag)
           \o <<Part("WAVEFORM", waveform_name), Part("SAMPLING", sampling_name)>>)

\* the lines write_headers writes back to one file: the first frequency
\* line is replaced, a file without one is written back as it was
NewLines(lines, waveform_file, sampling_file) ==
    LET hits == {i \in 1..Len(lines) : HasFrequency(lines[i])}
    IN  IF hits = {}
        THEN lines
        ELSE LET i == CHOOSE h \in hits : \A g \in hits : h <= g
             IN  [lines EXCEPT ![i] = Tagged(lines[i], Stem(waveform_file),
                                             Stem(sampling_file))]

\* the lines of a source file as they are on disk
OnDisk(i) == IF i \in DOMAIN rewritten THEN rewritten[i] ELSE files[i].lines

\* write_headers: the rows are visited in order; item(row, 0) of a row
\* without items is None, the attribute access raises and the handler
\* ends in _handle_error with the rows before it already written
WriteHeaders ==
    /\ pc \in {"done", "error"}
    /\ LET bad == {r \in 1..Len(table) : ~table[r].items}
           stop == IF bad = {} THEN Len(table) + 1
                   ELSE CHOOSE b \in bad : \A c \in bad : b <= c
           visited == {r \in 1..(stop - 1) : files[table[r].file_path].ext = "tem"}
           tem == {table[r].file_path : r \in visited}
           RowOf(i) == table[CHOOSE r \in visited : table[r].file_path = i]
       IN  /\ rewritten' =
                [i \in (DOMAIN rewritten) \cup tem |->
                    IF i \in tem
                    THEN NewLines(OnDisk(i), RowOf(i).waveform_file,
                                  RowOf(i).sampling_file)
                    ELSE rewritten[i]]
           /\ status' = IF bad = {} THEN "Headers updated successfully!"
                        ELSE "Error updating headers!"
    /\ UNCHANGED <<files, idx, pc, results, wfDir, spDir, rec, wfRet, spRet, log, mcg>>
    /\ UNCHANGED <<table, project>>

\* create_project_file: the entries are collected from every row first (a
\* row without items raises before anything is written); an existing file
\* is cut after its [Project Data Files] line and the entries follow it
CreateProjectFile ==
    /\ pc \in {"done", "error"}
    /\ IF \E r \in 1..Len(table) : ~table[r].items
       THEN /\ status' = "Error creating project file!"
            /\ UNCHANGED project
       ELSE LET new_entries == [r \in 1..Len(table) |->
                                   Entry(table[r].file_path, table[r].data_style)]
                content == project.lines
                hits == {i \in 1..Len(content) :
                            /\ content[i].path = NoPath
                            /\ content[i].text = "[Project Data Files]"}
                extended == IF hits = {}
                            THEN content \o <<Line(""), Line("[Project Data Files]")>>
                            ELSE content
                data_files_index ==
                    IF hits = {} THEN Len(extended)
                    ELSE CHOOSE h \in hits : \A g \in hits : h <= g
                fresh == <<Line("[Project Settings]"), Line("Project Name=\"Default\""),
                           Line(""), Line("[Project Data Files]")>>
            IN  /\ project' =
                     [ exists |-> TRUE,
                       lines  |-> IF project.exists
                                  THEN SubSeq(extended, 1, data_files_index)
                                       \o new_entries
                                  ELSE fresh \o new_entries ]
                /\ status' = "Project file created successfully!"
    /\ UNCHANGED <<files, idx, pc, results, wfDir, spDir, rec, wfRet, spRet, log, mcg>>
    /\ UNCHANGED <<table, rewritten>>

\* files a batch followed by the buttons is drawn from
ProjectFiles ==
    { TemFile(TRUE, <<PlainHead>> \o TwoWindows),
      TemFile(TRUE, <<KvLine(<<Freq52, Part("TXWAVEFORM", <<"UTEM">>)>>)>>
                    \o TwoWindows),
      PemFile(TRUE, <<SurveyLine(TRUE, 1666, 1500)>> \o WindowLines),
      PemFile(TRUE, WindowLines),
      [ext |-> "txt", readable |-> TRUE, lines |-> <<>>] }

\* project files found in the root directory
ProjectInputs ==
    { Absent,
      [exists |-> TRUE,
       lines |-> <<Line("[Project Settings]"), Line("Project Name=\"Default\"")>>],
      [exists |-> TRUE,
       lines |-> <<Line("[Project Settings]"), Line("Project Name=\"Default\""),
                   Line(""), Line("[Project Data Files]")>>],
      [exists |-> TRUE,
       lines |-> <<Line("[Project Settings]"), Line("Project Name=\"Default\""),
                   Line(""), Line("[Project Data Files]"),
                   Entry(OtherPath, "DataFileStyleBoreholeSJV"),
                   Line(""), Line("[Project Views]"), Line("View=Plan")>>] }

InitProject ==
    /\ files \in ListsUpTo(ProjectFiles, MaxFiles) \ {<<>>}
    /\ idx = 1
    /\ pc = "loop"
    /\ results = Empty
    /\ wfDir = Empty
    /\ spDir = Empty
    /\ rec = None
    /\ wfRet = NoneS
    /\ spRet = NoneS
    /\ log = <<>>
    /\ mcg = None
    /\ table = <<>>
    /\ rewritten = Empty
    /\ project \in ProjectInputs
    /\ status = ""

NextProject ==
    \/ ProcessTem
    \/ ProcessPem
    \/ SkipFile
    \/ UpdateTable
    \/ WriteHeaders
    \/ CreateProjectFile

SpecProject == InitProject /\ [][NextProject]_vars

-----------------------------------------------------------------------------

Init == InitTem \/ InitBatch \/ InitPemFile \/ InitFn \/ InitMcg \/ InitProject

Next == NextTem \/ NextBatch \/ NextFn \/ NextMcg \/ WriteHeaders \/ CreateProjectFile

Spec == Init /\ [][Next]_vars

-----------------------------------------------------------------------------
(* Properties *)

IsDirective(line, k) == line.k = k /\ (k \in {"TIMES", "TIMESWIDTH"} => line.u \in {"ms", "us"})

\* the positions of the lines of a file whose directive k converts
GoodAt(lines, k) ==
    {i \in 1..Len(lines) : IsDirective(lines[i], k) /\ ~Raises(lines[i].toks)}

MaxIn(S) == CHOOSE m \in S : \A x \in S : x <= m

\* the values of the last line of the file whose directive k converts
LastValues(lines, k) == Values(lines[MaxIn(GoodAt(lines, k))].toks)

\* the file holds explicit /TIMESSTART and /TIMESEND directives
HasExplicit(lines) ==
    GoodAt(lines, "TIMESSTART") # {} /\ GoodAt(lines, "TIMESEND") # {}

\* the file holds a paired, equal-length /TIMES and /TIMESWIDTH
HasPaired(lines) ==
    /\ GoodAt(lines, "TIMES") # {}
    /\ GoodAt(lines, "TIMESWIDTH") # {}
    /\ Len(LastValues(lines, "TIMES")) > 0
    /\ Len(LastValues(lines, "TIMES")) = Len(LastValues(lines, "TIMESWIDTH"))

\* C1: a file with both the explicit directives and a paired
\* TIMES/TIMESWIDTH yields the windows of the explicit directives.
C1_ExplicitDirectivesWin ==
    (rec # None /\ HasExplicit(files[1].lines) /\ HasPaired(files[1].lines)) =>
        /\ rec.times_start = LastValues(files[1].lines, "TIMESSTART")
        /\ rec.times_end = LastValues(files[1].lines, "TIMESEND")
        /\ rec.num_channels = Len(LastValues(files[1].lines, "TIMESEND"))

\* C2: in every HeaderRecord with a non-empty times_start or times_end,
\* len(times_start) = len(times_end) = num_channels.
C2_WindowArraysAgree ==
    (rec # None /\ (Len(rec.times_start) > 0 \/ Len(rec.times_end) > 0)) =>
        /\ Len(rec.times_start) = Len(rec.times_end)
        /\ Len(rec.times_end) = rec.num_channels

\* C3: a second _generate_waveform_csv call on the same HeaderRecord and
\* directory returns the same name, writes nothing and leaves the content
\* as the first call left it.
C3_SecondWaveformCallIsNoOp ==
    (Len(log) >= 2 /\ log[1].op = "waveform" /\ log[2].op = "waveform"
     /\ ~log[1].raised /\ log[1].ret # NoneS) =>
        /\ ~log[2].raised
        /\ log[2].ret = log[1].ret
        /\ ~log[2].wrote
        /\ log[2].after = log[1].after

ParseOps == {"parse_file_headers", "parse_pem_file", "parse_mcg_file"}

\* file j of the batch was handed to its parse function
Parsed(j) == \E i \in 1..Len(log) : log[i].i = j /\ log[i].op \in ParseOps

\* C4: when process_files is over, every .tem and .pem file of the batch
\* has been parsed, whatever happened to the files before it.
C4_FailureDoesNotAbortBatch ==
    pc \in {"done", "error"} =>
        \A j \in 1..Len(files) : files[j].ext \in {"tem", "pem"} => Parsed(j)

\* a required block or directive of the MCG file is absent
MissingRequired(m) ==
    \/ ~m.wave.present
    \/ ~m.chan.present
    \/ ~m.units.present
    \/ ~m.unit_types.present

\* C5: parse_mcg_file on a file that lacks a required block fails and has
\* created neither the waveform CSV nor the sampling CSV.
C5_McgAllOrNothing ==
    (pc \in {"imported", "import_error"} /\ MissingRequired(mcg)) =>
        /\ pc = "import_error"
        /\ wfDir = Empty
        /\ spDir = Empty

NoSurveyLine(file) == \A i \in 1..Len(file.lines) : file.lines[i].k # "survey"

\* C6: for a PEM file with no line holding both "Metric" and "Cable",
\* parse_pem_file raises and the loop body of process_files writes no
\* file: both output directories are as before and the entry is None.
C6_PemWithoutSurveyWritesNothing ==
    [][ (pc = "loop" /\ idx <= Len(files) /\ files[idx].ext = "pem"
         /\ NoSurveyLine(files[idx])) =>
            /\ wfDir' = wfDir
            /\ spDir' = spDir
            /\ idx \in DOMAIN results'
            /\ results'[idx] = None
            /\ log' = Append(log, Call("parse_pem_file", idx, NoneS, TRUE, FALSE))
      ]_vars

C6_Witness ==
    \E j \in DOMAIN results :
        /\ files[j].ext = "pem"
        /\ files[j].readable
        /\ NoSurveyLine(files[j])
        /\ results[j] = None
        /\ wfDir = Empty

\* C7: no parse function lets an exception reach its caller.
C7_ParseFunctionsNeverRaise ==
    \A i \in 1..Len(log) : log[i].op \in ParseOps => ~log[i].raised

\* the file holds /TIMES and /TIMESWIDTH directives, all with the unit
\* suffix u, a paired equal-length couple of them, and no explicit directive
PairedOnly(lines, u) ==
    /\ HasPaired(lines)
    /\ \A i \in 1..Len(lines) :
          /\ lines[i].k \notin {"TIMESSTART", "TIMESEND"}
          /\ lines[i].k \in {"TIMES", "TIMESWIDTH"} => lines[i].u = u

\* the same line with the us suffix and every value x 1000
LineInUs(line) ==
    IF line.k \in {"TIMES", "TIMESWIDTH"}
    THEN [line EXCEPT !.u = "us",
                      !.toks = [i \in 1..Len(line.toks) |->
                                  [line.toks[i] EXCEPT !.v = @ * 1000]]]
    ELSE line

FileInUs(file) ==
    [file EXCEPT !.lines = [i \in 1..Len(file.lines) |-> LineInUs(file.lines[i])]]

\* times[i] - width[i] and times[i] + width[i] for arrays in milliseconds
WindowsOf(t, w) ==
    [ start |-> [i \in 1..Len(t) |-> t[i] - w[i]],
      end |-> [i \in 1..Len(t) |-> t[i] + w[i]] ]

InMs(xs, u) == [i \in 1..Len(xs) |-> IF u = "us" THEN Div1000(xs[i]) ELSE xs[i]]

UsLiteral(lines) ==
    \E i \in 1..Len(lines) :
        \/ lines[i].k = "TIMESSTART" /\ lines[i].u = "us"
        \/ lines[i].k = "TIMES" /\ lines[i].u = "us"
        \/ lines[i].k = "TIMESEND" /\ lines[i].u = "us"

\* x / 1,000,000 rounded to the grid
Millionth(x) ==
    LET q == (Abs(x) + 500000) \div 1000000
    IN  IF x < 0 THEN 0 - q ELSE q

C10_OutputExactlyForSupported ==
    \A i \in 1..Len(log) :
        log[i].op = "waveform" =>
            IF ~Falsy(rec.base_frequency) /\ Supported(rec.tx_waveform)
            THEN /\ ~log[i].raised
                 /\ log[i].ret # NoneS
                 /\ log[i].ret \in DOMAIN log[i].after
            ELSE /\ ~log[i].raised
                 /\ log[i].ret = NoneS
                 /\ log[i].after = log[i].before

\* the calls of _generate_waveform_csv that produced output
WaveformOutputs == {i \in 1..Len(log) : log[i].op = "waveform" /\ log[i].ret # NoneS}

\* duty_cycle parses as a float d with |d - 50| < 0.001
IsHalfDuty(duty_cycle) ==
    LET d == Strip(duty_cycle, {" "})
    IN  IsFloat(d) /\ Abs(ToFloat(d) - 50 * Scale) < Scale \div 1000

\* the prefix the naming rule gives a header record
NamePrefix(r) ==
    IF r.tx_waveform = <<"UTEM">> THEN <<"UTEM", "_">>
    ELSE IF IsHalfDuty(r.duty_cycle) THEN <<"5", "0", "_", "Square", "_">>
    ELSE <<"Square", "_">>

\* C11: whenever _generate_waveform_csv produces output, the file name and
\* the Waveform Name row start with UTEM for tx_waveform UTEM whatever the
\* duty cycle, else with 50_Square when duty_cycle parses as a float within
\* 0.001 of 50, else with Square (a non-numeric duty_cycle included).
C11_WaveformNaming ==
    \A i \in WaveformOutputs :
        LET name == NamePrefix(rec) \o rec.base_frequency
        IN  /\ log[i].ret = name \o <<".csv">>
            /\ log[i].after[log[i].ret][1] = CsvRow(<<<<"Waveform Name">>, name>>)

\* C11: a UTEM waveform was written for a record whose duty cycle is 50
C11_Witness ==
    /\ pc = "waved"
    /\ rec.tx_waveform = <<"UTEM">>
    /\ rec.duty_cycle = <<"5", "0">>
    /\ wfRet = <<"UTEM", "_", "5", ".", "2", "0", "0", ".csv">>
    /\ wfRet \in DOMAIN wfDir

\* the rows of the shape table after the two name rows: zero time, column
\* header and control points
ShapeTable(half) ==
    IF half
    THEN << <<<<"Waveform Zero Time">>, <<"0.2501">>>>,
            <<<<"Scaled Time">>, <<"Current">>>>,
            <<<<"0.0000">>, <<"0.000000">>>>,
            <<<<"0.0001">>, <<"1.000000">>>>,
            <<<<"0.2500">>, <<"1.000000">>>>,
            <<<<"0.2501">>, <<"0.000000">>>>,
            <<<<"0.5000">>, <<"0.000000">>>> >>
    ELSE << <<<<"Waveform Zero Time">>, <<"0.0000">>>>,
            <<<<"Scaled Time">>, <<"Current">>>>,
            <<<<"0.0000">>, <<"-1.000000">>>>,
            <<<<"0.0001">>, <<"1.000000">>>>,
            <<<<"0.5000">>, <<"1.000000">>>> >>

\* a written point time, in ten-thousandths
PointTime(text) ==
    CASE text = <<"0.0000">> -> 0
      [] text = <<"0.0001">> -> 1
      [] text = <<"0.2500">> -> 2500
      [] text = <<"0.2501">> -> 2501
      [] text = <<"0.5000">> -> 5000

\* the point times of a written waveform file
PointTimes(text) ==
    [k \in 1..(Len(text) - 4) |-> PointTime(<<text[k + 4][1]>>)]

\* C12: the zero time and control points written by _generate_waveform_csv
\* are those of the fixed shape table: the 50% duty shape exactly for
\* tx_waveform Undefined with a 50% duty cycle, the other shape for UTEM
\* and for Undefined with any other duty cycle; the point times increase
\* strictly and lie in [0, 0.5].
C12_ShapeTable ==
    \A i \in WaveformOutputs :
        LET text == log[i].after[log[i].ret]
            half == rec.tx_waveform = <<"Undefined">> /\ IsHalfDuty(rec.duty_cycle)
            t == PointTimes(text)
        IN  /\ SubSeq(text, 3, Len(text)) = CsvText(ShapeTable(half))
            /\ \A k \in 1..Len(t) : 0 <= t[k] /\ t[k] <= 5000
            /\ \A k \in 1..(Len(t) - 1) : t[k] < t[k + 1]

\* C13: the sampling name written by _generate_sampling_csv, and the stem of
\* the file name, is the waveform base name with the frequency reformatted
\* to 3 decimal places, followed by _<num_channels>ch, for the UTEM, Square
\* and 50_Square prefixes alike and for every base_frequency the waveform
\* builder accepted.
C13_SamplingName ==
    pc = "sampled" =>
        \A fn \in DOMAIN spDir :
            /\ IsFloat(rec.base_frequency)
            /\ LET name == NamePrefix(rec)
                           \o Fmt3Str(ToFloat(rec.base_frequency))
                           \o <<"_">> \o ChannelsStr(rec.num_channels) \o <<"ch">>
               IN  /\ spDir[fn][1] = <<"Sampling Name", name>>
                   /\ fn = name \o <<".csv">>

\* the times _generate_sampling_csv writes for a header record
WrittenTimes(r, xs) ==
    IF SniffUs(r.header_lines) THEN [i \in 1..Len(xs) |-> Div1000(xs[i])] ELSE xs

\* C14: a sampling CSV written by _generate_sampling_csv holds the Sampling
\* Name row, the Primary Time Gate row with the first channel's start and
\* end, the Field Type row, the column-header row and then exactly
\* num_channels rows Ch1..ChN in index order, row Ch(i+1) with
\* times_start[i], times_end[i], the i-th gradient colour and weight 2.
C14_SamplingRowSequence ==
    pc = "sampled" =>
        \A fn \in DOMAIN spDir :
            LET rows == spDir[fn]
                n == rec.num_channels
                ts == WrittenTimes(rec, rec.times_start)
                te == WrittenTimes(rec, rec.times_end)
            IN  /\ n >= 0
                /\ Len(rows) = 4 + n
                /\ rows[1][1] = "Sampling Name"
                /\ rows[2] = <<"Primary Time Gate", Fmt3(ts[1]), Fmt3(te[1])>>
                /\ rows[3][1] = "Field Type"
                /\ rows[4] = <<"Channel Name", "ChStart", "ChEnd", "Red",
                               "Green", "Blue", "LineWt">>
                /\ \A i \in 1..n :
                      rows[4 + i] = <<"Ch", i, Fmt3(ts[i]), Fmt3(te[i]),
                                      250000 + (i - 1) * 50000,
                                      750000 - (i - 1) * 50000, 500000, "2">>

\* C15: every sampling CSV in the output directory, whichever pipeline wrote
\* it, has a Field Type row, and the value of that row is exactly b or
\* exactly dbdt.
C15_FieldTypeValues ==
    \A fn \in DOMAIN spDir :
        LET rows == spDir[fn]
        IN  /\ \E k \in 1..Len(rows) : rows[k][1] = "Field Type"
            /\ \A k \in 1..Len(rows) :
                  rows[k][1] = "Field Type" => rows[k][2] \in {"b", "dbdt"}

\* the time_windows list generate_pem_sampling_csv was given for the file
PemWindows == parse_pem_file(files[1]).time_windows

IsChannelRow(row) == row[1] = "Ch"

\* C16: generate_pem_sampling_csv writes exactly len(time_windows) - 3
\* channel rows Ch1..ChN, none for a list of 3 or fewer elements; Ch k holds
\* time_windows[k+1] and time_windows[k+2] (0-based), each times 1000, so
\* Ch1 reads elements 2 and 3 and the start of every later channel is the
\* element that ended the channel before it.
C16_PemChannelPairing ==
    \A fn \in DOMAIN spDir :
        LET tw == PemWindows
            ch == SelectSeq(spDir[fn], IsChannelRow)
        IN  /\ Len(ch) = IF Len(tw) > 3 THEN Len(tw) - 3 ELSE 0
            /\ \A k \in 1..Len(ch) :
                  /\ ch[k][2] = k
                  /\ ch[k][3] = Fmt3(SecToMs(tw[k + 2]))
                  /\ ch[k][4] = Fmt3(SecToMs(tw[k + 3]))
                  /\ k >= 2 => ch[k][3] = ch[k - 1][4]

\* C16: a PEM sampling file with three channel rows was written from a list
\* of six windows
C16_Witness ==
    /\ pc = "done"
    /\ Len(PemWindows) = 6
    /\ \E fn \in DOMAIN spDir :
          LET ch == SelectSeq(spDir[fn], IsChannelRow)
          IN  Len(ch) = 3 /\ ch[2][3] = ch[1][4] /\ ch[3][3] = ch[2][4]

\* C17: for every time_windows list, lists of fewer than 2 elements
\* included, the last row of the file generate_pem_sampling_csv writes is
\* the PP row; its start and end are those of the Primary Time Gate row and
\* its colour is 0, 0.299774, 0.996094.
C17_PemLastRowIsPP ==
    \A fn \in DOMAIN spDir :
        LET rows == spDir[fn]
            last == rows[Len(rows)]
        IN  /\ last[1] = "PP"
            /\ rows[2][1] = "Primary Time Gate"
            /\ last[2] = rows[2][2]
            /\ last[3] = rows[2][3]
            /\ <<last[4], last[5], last[6]>> = <<"0", "0.299774", "0.996094">>

C19_FieldTypeClassification ==
    "field_type" \in DOMAIN results =>
        /\ results["field_type"] \in {"b", "dbdt"}
        /\ results["field_type"] = "dbdt" <=> rec.units \in dbdt_units
        /\ rec.units \in b_field_units => results["field_type"] = "b"
        /\ rec.units = NoneS => results["field_type"] = "b"
        /\ dbdt_units \cap b_field_units = {}

\* C19: a value in neither unit set was classified b
C19_Witness ==
    /\ pc = "call"
    /\ rec.units = <<"nT/s">>
    /\ rec.units \notin dbdt_units \cup b_field_units
    /\ "field_type" \in DOMAIN results
    /\ results["field_type"] = "b"

\* the point rows of a complete MCG waveform file
McgWrittenPoints(rows) == SubSeq(rows, 5, Len(rows))

\* C20: parse_mcg_file writes every waveform point time scaled by
\* 0.5 / max_time, max_time being the largest time of the block: the point
\* at max_time is written as exactly 0.5, a point at time 0 as exactly 0.0
\* (also when max_time is 0), and the relative order of the points is kept.
C20_McgScaling ==
    \A fn \in DOMAIN wfDir :
        Len(wfDir[fn]) >= 4 =>
            LET w == McgWrittenPoints(wfDir[fn])
                pts == mcg.wave.rows
                max_time == MaxIn({pts[k][1] : k \in 1..Len(pts)})
            IN  /\ Len(w) = Len(pts)
                /\ \A k \in 1..Len(pts) :
                      /\ pts[k][1] = 0 => w[k][1] = 0
                      /\ (pts[k][1] = max_time /\ max_time # 0) => w[k][1] = 500000
                /\ \A j, k \in 1..Len(pts) :
                      pts[j][1] < pts[k][1] => w[j][1] <= w[k][1]

\* C21: a HeaderRecord does not change once parse_file_headers has returned
\* it: after _generate_waveform_csv and after _generate_sampling_csv it has
\* the same keys and the same value for every field as when it was parsed.
C21_HeaderRecordImmutable ==
    pc \in {"waved", "raised", "sampled"} => rec = parse_file_headers(files[1])

\* a directive line whose value list float() rejects
Malformed(line) ==
    /\ line.k \in {"TIMESSTART", "TIMESEND", "TIMES", "TIMESWIDTH"}
    /\ Raises(line.toks)

WellFormed(line) == ~Malformed(line)

\* C24: a malformed /TIMESSTART, /TIMESEND, /TIMES or /TIMESWIDTH line is
\* skipped: the times_start, times_end and num_channels of the returned
\* record are those of the same file without its malformed lines.
C24_MalformedDirectiveSkipped ==
    (pc = "parsed" /\ rec # None) =>
        LET clean == [files[1] EXCEPT !.lines = SelectSeq(@, WellFormed)]
            r == parse_file_headers(clean)
        IN  /\ r # None
            /\ rec.times_start = r.times_start
            /\ rec.times_end = r.times_end
            /\ rec.num_channels = r.num_channels

\* C25: when _generate_sampling_csv returns None it has created or changed
\* no file in the output directory.
C25_NoResultNoFile ==
    (pc = "sampled" /\ spRet = NoneS) => spDir = Empty

\* the numeric duty cycles written in the key=value lines of a file
HeaderDuties(lines) ==
    { ToFloat(Strip(lines[i].kv[j].val, {",", "\"", " ", "&"})) :
        <<i, j>> \in { p \in (1..Len(lines)) \X (1..2) :
                         /\ p[2] <= Len(lines[p[1]].kv)
                         /\ Upper(lines[p[1]].kv[p[2]].key)
                                \in {"DUTY", "DUTYCYCLE"}
                         /\ IsFloat(Strip(lines[p[1]].kv[p[2]].val,
                                          {",", "\"", " ", "&"})) } }

\* C29: for a TEM file with tx_waveform unset and a numeric duty cycle d in
\* its header, parse_file_headers followed by _generate_waveform_csv gives
\* the 50_Square prefix and the 50% duty shape if and only if
\* |d - 50| < 0.001.
C29_DutyBoundaryEndToEnd ==
    \A i \in WaveformOutputs :
        rec.tx_waveform = <<"Undefined">> =>
            \A d \in HeaderDuties(files[1].lines) :
                LET text == log[i].after[log[i].ret]
                    half == /\ SubSeq(log[i].ret, 1, 5)
                                  = <<"5", "0", "_", "Square", "_">>
                            /\ text[3] = CsvRow(<<<<"Waveform Zero Time">>,
                                                  <<"0.2501">>>>)
                IN  half <=> Abs(d - 50 * Scale) < Scale \div 1000

\* the position of the first line of a PEM file that satisfies P, or
\* Len(lines) + 1
FirstFrom(lines, i, P(_)) ==
    LET hits == {j \in i..Len(lines) : P(lines[j])}
    IN  IF hits = {} THEN Len(lines) + 1
        ELSE CHOOSE j \in hits : \A h \in hits : j <= h

IsSurvey(line) == line.k = "survey"
StartsSection(line) == line.dash
EndsSection(line) == line.dollar

\* the values of the lines i..(end - 1), in encounter order
RECURSIVE SectionValues(_, _, _)
SectionValues(lines, i, end) ==
    IF i >= end \/ i > Len(lines) THEN <<>>
    ELSE (IF Raises(lines[i].toks) THEN <<>> ELSE Values(lines[i].toks))
         \o SectionValues(lines, i + 1, end)

\* C23: parse_pem_file collects window values only inside the time-window
\* section, which begins at the first line after the survey line that
\* starts with "-" and holds an "e" and ends before the first following
\* line holding "$"; the values are in encounter order.
C23_PemWindowSection ==
    \A i \in DOMAIN results :
        (files[i].ext = "pem" /\ results[i] # None) =>
            LET lines == files[i].lines
                survey == FirstFrom(lines, 1, IsSurvey)
                start == FirstFrom(lines, survey + 1, StartsSection)
                end == FirstFrom(lines, start, EndsSection)
            IN  parse_pem_file(files[i]).time_windows
                    = SectionValues(lines, start, end)

\* C30: the channel count of a processed PEM file, shown in the results and
\* embedded in the sampling file name as len(time_windows) - 3, is not
\* negative and is the number of Ch rows in that sampling file.
C30_PemChannelCount ==
    \A i \in DOMAIN results :
        (files[i].ext = "pem" /\ results[i] # None) =>
            /\ results[i].num_channels >= 0
            /\ results[i].sampling_file
                   = PemSamplingFile(parse_pem_file(files[i]).base_freq,
                                     parse_pem_file(files[i]).time_windows)
            /\ results[i].num_channels
                   = Len(SelectSeq(spDir[results[i].sampling_file], IsChannelRow))

\* the first row of a descriptor file names the stem of its file name;
\* a TEM waveform file is held as CSV text, the others as rows
NameRowMatches(rows, fn, label) ==
    IF Len(rows[1]) = 2
    THEN rows[1] = <<label, Stem(fn)>>
    ELSE rows[1] = CsvRow(<<<<label>>, Stem(fn)>>)

\* C26: in every descriptor file a pipeline writes, waveform or sampling,
\* the name in the first row (Waveform Name / Sampling Name) is the stem of
\* the name the file is written under.
C26_NameIsFileStem ==
    /\ \A fn \in DOMAIN wfDir : NameRowMatches(wfDir[fn], fn, "Waveform Name")
    /\ \A fn \in DOMAIN spDir : NameRowMatches(spDir[fn], fn, "Sampling Name")

\* C27: after process_files, for every TEM file with a recorded
\* sampling_file the sampling CSV under that name holds that file's own
\* time windows and field type: files that map to one sampling file name
\* do not differ in content.
C27_ContentFollowsFileName ==
    pc = "done" =>
        \A i \in DOMAIN results :
            (files[i].ext = "tem" /\ results[i] # None
                /\ results[i].sampling_file # NoneS) =>
                LET own == _generate_sampling_csv(parse_file_headers(files[i]),
                                                  results[i].waveform_file, Empty)
                IN  spDir[results[i].sampling_file] = own.dir[own.ret]

RECURSIVE IsSubsequence(_, _)
\* every element of a occurs in b, in the same order
IsSubsequence(a, b) ==
    IF a = <<>> THEN TRUE
    ELSE IF b = <<>> THEN FALSE
    ELSE IF Head(a) = Head(b) THEN IsSubsequence(Tail(a), Tail(b))
    ELSE IsSubsequence(a, Tail(b))

\* C22: create_project_file is append-only on an existing project file:
\* every line present before the call is still present, in the same order,
\* after it.
C22_ProjectFileAppendOnly ==
    [][(project.exists /\ project' # project)
         => IsSubsequence(project.lines, project'.lines)]_vars

\* C28: after a batch in which a PEM file failed to parse, write_headers
\* rewrites the header line of every TEM file in the table, those listed
\* after the failed file included.
C28_WriteHeadersPassesFailedEntry ==
    ( /\ status \in {"Headers updated successfully!", "Error updating headers!"}
      /\ \E j \in DOMAIN results : results[j] = None )
    => \A i \in DOMAIN results :
           files[i].ext = "tem" => i \in DOMAIN rewritten

====
